---- MODULE Spec2Model ----
(***************************************************************************)
(* A model of DiskImage (src/disk_image.cpp): one disk-image object bound  *)
(* to one SdFile handle, with the four container formats ATR, PRO, ATX and *)
(* XFD.  The backing files are byte-addressed; every offset, size and      *)
(* field position is the one the code computes.                            *)
(***************************************************************************)
EXTENDS Integers, Sequences, FiniteSets, TLC

(***************************************************************************)
(* Constants of disk_image.h and config.h (headers that are not part of    *)
(* the sources at hand): their names are the ones disk_image.cpp uses.     *)
(***************************************************************************)
TYPE_ATR == "ATR"
TYPE_PRO == "PRO"
TYPE_ATX == "ATX"
TYPE_XFD == "XFD"
\* any value of the byte m_type that is none of the four TYPE_ constants
TYPE_GARBAGE == "GARBAGE"

SECTOR_SIZE_SD == 128
FORMAT_SS_SD_35 == 80640
FORMAT_SS_SD_40 == 92160
FORMAT_SS_ED_35 == 116480
FORMAT_SS_ED_40 == 133120
FORMAT_SS_DD_35 == 179200
FORMAT_SS_DD_40 == 184320
DENSITY_SD == 1
DENSITY_ED == 2

\* ATR header: signature (2 bytes, little-endian 0x0296), pars, secSize
ATR_SIG_LO == 150
ATR_SIG_HI == 2
SIZEOF_ATRHeader == 16

\* PRO file header: sectorCountHi, sectorCountLo, magic, imageType,
\* phantomSectorMode, sectorReadDelay (byte offsets in the 16-byte header)
PFH_sectorCountHi == 0
PFH_sectorCountLo == 1
PFH_magic == 2
PFH_phantomSectorMode == 4
PFH_sectorReadDelay == 5
MAGIC_P == 80

PSM_SIMPLE == 0
PSM_MINDSCAPE_SPECIAL == 1
PSM_GLOBAL_FLIP_FLOP == 2
PSM_GLOBAL_FLOP_FLIP == 3
PSM_HEURISTIC == 4
PSM_STICKY == 5
PSM_REVERSE_STICKY == 6
PSM_SHIMMERING == 7
PSM_REVERSE_SHIMMER == 8

\* PRO sector header: a 4-byte status frame (commandStatus, hardwareStatus,
\* timeout_lsb, timeout_msb), then the phantom bookkeeping bytes
SIZEOF_PROSectorHeader == 12
SIZEOF_StatusFrame == 4
PSH_commandStatus == 0
PSH_hardwareStatus == 1
PSH_timeout_lsb == 2
PSH_timeout_msb == 3
PSH_totalPhantoms == 5
PSH_phantom1 == 7
\* bit numbers of the hardware status byte
HW_dataLostOrTrack0 == 2
HW_crcError == 3
HW_recordNotFound == 4

\* literals of disk_image.cpp
NUM_SECTOR_HEADERS == 720
SECTORS_PER_TRACK == 18
NUM_TRACKS == 40
SENTINEL_SECTOR == 60000
ATX_DIR_OFFSET_POS == 28
HW_MISSING_SECTOR == 247
CMD_STATUS_ATX == 16
TIMEOUT_ATX == 224
DELAY_UNIT == 16
PRO_FILE_HEADER_SIZE == 16

NoFile == 0

Max(a, b) == IF a >= b THEN a ELSE b
Min(a, b) == IF a <= b THEN a ELSE b
Pow2(n) == 2 ^ n
Bit(b, n) == (b \div Pow2(n)) % 2
ToByte(v) == v % 256
\* TLC's integers are 32 bits wide and signed, and it stops on an overflow.
\* A 32-bit unsigned long u is therefore held as its two's complement value:
\* u itself below 2^31, and u - 2^32 from 2^31 on.  Sums and differences
\* modulo 2^32 are then plain sums and differences.
MaxInt32 == 1073741823 * 2 + 1
ToULong(v) == v
\* a < b, a >= b and a / k on unsigned long values held that way
ULess(a, b) == IF (a < 0) = (b < 0) THEN a < b ELSE b < 0
UDiv(a, k) ==
  IF a >= 0 THEN a \div k
  ELSE LET x == MaxInt32
           y == MaxInt32 + a + 1
       IN  (x \div k) + (y \div k) + (((x % k) + (y % k) + 1) \div k)
\* conversion of a value to an int of the build's width.  A product or sum
\* that does not fit the int wraps around, which is what the two's complement
\* code of the AVR and ARM builds computes.
ToInt(v, bits) ==
  IF bits >= 32 THEN v
  ELSE LET m == v % Pow2(bits)
       IN  IF m >= Pow2(bits - 1) THEN m - Pow2(bits) ELSE m

(***************************************************************************)
(* The files on the card.  A file is named by a small number; FileName,    *)
(* BaseSize and BaseByte give its 8.3 name, its size and its bytes as they *)
(* are before anything is written.                                         *)
(***************************************************************************)
F_ATR == 1   \* ATR image, 128-byte sectors, 40 tracks single density
F_PRO == 2   \* PRO image, phantom mode GLOBAL_FLIP_FLOP
F_PROH == 3  \* PRO image, a phantom mode the loader's switch does not list
F_ATX == 4   \* ATX image
F_XFD == 5   \* XFD image
F_JUNK == 6  \* a file of no known format
MainFiles == {F_ATR, F_PRO, F_PROH, F_ATX, F_XFD, F_JUNK}

ProSectorCount == NUM_SECTOR_HEADERS + 2
ProSlotSize == SECTOR_SIZE_SD + SIZEOF_PROSectorHeader
AtxFirstRecord == 48
AtxListOffset == 32
AtxDataOffset == AtxListOffset + 8 + 8 * SECTORS_PER_TRACK
AtxRecordSize == AtxDataOffset + SECTORS_PER_TRACK * SECTOR_SIZE_SD

(***************************************************************************)
(* Files for the format detector alone: every combination of a 16-byte     *)
(* header, a size and a name extension from the lists below.  File         *)
(* GridBase + h + 7 * (z + 5 * n) has header h, size z and extension n.    *)
(***************************************************************************)
GridBase == 100
GridFiles == GridBase .. (GridBase + 7 * 5 * 4 - 1)
GridHeader(f) == (f - GridBase) % 7
GridSizeIx(f) == ((f - GridBase) \div 7) % 5
GridNameIx(f) == (f - GridBase) \div 35

\* the size for which the two ATR signature bytes, read as sectorCountHi and
\* sectorCountLo, are the sector count of a PRO file
DualSize == PRO_FILE_HEADER_SIZE + (ATR_SIG_LO * 256 + ATR_SIG_HI) * ProSlotSize

GridSize(f) ==
  CASE GridSizeIx(f) = 0 -> FORMAT_SS_SD_40
    [] GridSizeIx(f) = 1 -> DualSize
    [] GridSizeIx(f) = 2 -> PRO_FILE_HEADER_SIZE + ProSectorCount * ProSlotSize
    [] GridSizeIx(f) = 3 -> 10
    [] OTHER -> FORMAT_SS_SD_40 + SIZEOF_ATRHeader

GridName(f) ==
  CASE GridNameIx(f) = 0 -> <<"G", ".", "X", "F", "D">>
    [] GridNameIx(f) = 1 -> <<"G", ".", "x", "f", "d">>
    [] GridNameIx(f) = 2 -> <<"G", ".", "X", "f", "d">>
    [] OTHER -> <<"G", ".", "A", "T", "R">>

\* the sector count a PRO file of this size declares (0 for a file shorter
\* than its header)
GridCount(f) ==
  IF GridSize(f) < PRO_FILE_HEADER_SIZE THEN 0
  ELSE (GridSize(f) - PRO_FILE_HEADER_SIZE) \div ProSlotSize

\* headers: 0 ATR signature and the PRO magic, 1 ATR signature alone,
\* 2 matching PRO count and magic, 3 matching count and a wrong magic,
\* 4 count off by one and the magic, 5 ATX signature, 6 zeros
GridBaseByte(f, off) ==
  LET h == GridHeader(f)
      c == IF h = 4 THEN GridCount(f) + 1 ELSE GridCount(f)
  IN  CASE off >= SIZEOF_ATRHeader -> 0
        [] off = 0 /\ h \in {0, 1} -> ATR_SIG_LO
        [] off = 1 /\ h \in {0, 1} -> ATR_SIG_HI
        [] off = 0 /\ h \in {2, 3, 4} -> (c \div 256) % 256
        [] off = 1 /\ h \in {2, 3, 4} -> c % 256
        [] off = 2 /\ h \in {0, 2, 4} -> MAGIC_P
        [] off = 2 /\ h = 3 -> MAGIC_P + 1
        [] off = 4 /\ h \in {0, 1} -> SECTOR_SIZE_SD
        [] off = 0 /\ h = 5 -> 65
        [] off = 1 /\ h = 5 -> 84
        [] off = 2 /\ h = 5 -> 56
        [] off = 3 /\ h = 5 -> 88
        [] OTHER -> 0

\* the payload bytes of the n-th sector-sized unit of a file: all equal, and
\* different from unit to unit
Fill(n) == 1 + (n % 250)

(***************************************************************************)
(* ATX files for the index builder alone.  Each is laid out as its fields, *)
(* read as little-endian numbers, say: the directory offset at byte 28     *)
(* gives the place of the first track record; that record has the length,  *)
(* track number, sector count, sector-list offset and first data offset of *)
(* the file's entry in AtxLayouts, and its sector entries are numbered 1,   *)
(* 2, ... with status 0; 39 more records follow it, for tracks 1 .. 39,    *)
(* each with one entry for sector 1.                                       *)
(***************************************************************************)
AtxVarBase == 300
AtxRestSize == 176    \* size of each of the 39 records that follow the first
AtxRestData == 48     \* start offset of their one sector

AtxLayouts ==
  << [dir |-> 48,       len |-> 312,     list |-> 32,    data |-> 56,     track |-> 0,   count |-> 2],
     [dir |-> 65536,    len |-> 312,     list |-> 32,    data |-> 56,     track |-> 0,   count |-> 2],
     [dir |-> 16777216, len |-> 312,     list |-> 32,    data |-> 56,     track |-> 0,   count |-> 2],
     [dir |-> 48,       len |-> 65848,   list |-> 32,    data |-> 56,     track |-> 0,   count |-> 2],
     [dir |-> 48,       len |-> 65848,   list |-> 65568, data |-> 65592,  track |-> 0,   count |-> 2],
     [dir |-> 48,       len |-> 65848,   list |-> 32,    data |-> 65592,  track |-> 0,   count |-> 2],
     [dir |-> 48,       len |-> 176,     list |-> 32,    data |-> 48,     track |-> 40,  count |-> 1],
     [dir |-> 48,       len |-> 2624,    list |-> 32,    data |-> 192,    track |-> 39,  count |-> 19],
     [dir |-> 48,       len |-> 176,     list |-> 32,    data |-> 48,     track |-> 255, count |-> 1],
     [dir |-> 48,       len |-> 8912800, list |-> 32,    data |-> 524320, track |-> 0,   count |-> 65535] >>

AtxVarFiles == AtxVarBase .. (AtxVarBase + Len(AtxLayouts) - 1)
AtxLayout(f) == AtxLayouts[f - AtxVarBase + 1]

\* byte k of the little-endian form of v
LEByte(v, k) == (v \div (256 ^ k)) % 256

AtxVarSize(f) == AtxLayout(f).dir + AtxLayout(f).len + (NUM_TRACKS - 1) * AtxRestSize

\* byte e of sector entry i of the first record
AtxVarEntryByte(p, i, e) ==
  CASE e = 0 -> (i + 1) % 256
    [] e >= 4 -> LEByte(p.data + i * SECTOR_SIZE_SD, e - 4)
    [] OTHER -> 0

\* byte r of the first record
AtxVarFirstByte(p, r) ==
  CASE r < 4 -> LEByte(p.len, r)
    [] r = 8 -> p.track
    [] r \in {10, 11} -> LEByte(p.count, r - 10)
    [] r >= 20 /\ r < 24 -> LEByte(p.list, r - 20)
    [] r >= p.list + 8 /\ r < p.list + 8 + 8 * p.count ->
         AtxVarEntryByte(p, (r - (p.list + 8)) \div 8, (r - (p.list + 8)) % 8)
    [] r >= p.data /\ r < p.data + p.count * SECTOR_SIZE_SD
         /\ ~(r >= p.list + 8 /\ r < p.list + 8 + 8 * p.count) ->
         Fill((r - p.data) \div SECTOR_SIZE_SD + 1)
    [] OTHER -> 0

\* byte q of the record of track k, k in 1 .. 39
AtxVarRestByte(k, q) ==
  CASE q = 0 -> AtxRestSize
    [] q = 8 -> k
    [] q = 10 -> 1
    [] q = 20 -> AtxListOffset
    [] q = AtxListOffset + 8 -> 1
    [] q = AtxListOffset + 12 -> AtxRestData
    [] q >= AtxRestData -> Fill(k * SECTORS_PER_TRACK + 1)
    [] OTHER -> 0

AtxVarByteOf(p, off) ==
  CASE off < 4 -> <<65, 84, 56, 88>>[off + 1]
    [] off >= ATX_DIR_OFFSET_POS /\ off < ATX_DIR_OFFSET_POS + 4 ->
         LEByte(p.dir, off - ATX_DIR_OFFSET_POS)
    [] off >= ATX_DIR_OFFSET_POS + 4 /\ off >= p.dir /\ off < p.dir + p.len ->
         AtxVarFirstByte(p, off - p.dir)
    [] off >= ATX_DIR_OFFSET_POS + 4 /\ off >= p.dir + p.len ->
         AtxVarRestByte(1 + (off - p.dir - p.len) \div AtxRestSize,
                        (off - p.dir - p.len) % AtxRestSize)
    [] OTHER -> 0

AtxVarByte(f, off) == AtxVarByteOf(AtxLayout(f), off)

FileName(f) ==
  CASE f \in AtxVarFiles -> <<"V", ".", "A", "T", "X">>
    [] f \in GridFiles -> GridName(f)
    [] f = F_ATR  -> <<"A", ".", "A", "T", "R">>
    [] f = F_PRO  -> <<"P", ".", "P", "R", "O">>
    [] f = F_PROH -> <<"H", ".", "P", "R", "O">>
    [] f = F_ATX  -> <<"X", ".", "A", "T", "X">>
    [] f = F_XFD  -> <<"F", ".", "X", "F", "D">>
    [] OTHER      -> <<"J", ".", "B", "I", "N">>

BaseSize(f) ==
  CASE f \in AtxVarFiles -> AtxVarSize(f)
    [] f \in GridFiles -> GridSize(f)
    [] f = F_ATR  -> SIZEOF_ATRHeader + FORMAT_SS_SD_40
    [] f = F_PRO  -> PRO_FILE_HEADER_SIZE + ProSectorCount * ProSlotSize
    [] f = F_PROH -> PRO_FILE_HEADER_SIZE + ProSectorCount * ProSlotSize
    [] f = F_ATX  -> AtxFirstRecord + NUM_TRACKS * AtxRecordSize
    [] f = F_XFD  -> FORMAT_SS_SD_40
    [] OTHER      -> 1000

AtrBaseByte(off) ==
  IF off >= SIZEOF_ATRHeader
  THEN Fill((off - SIZEOF_ATRHeader) \div SECTOR_SIZE_SD + 1)
  ELSE CASE off = 0 -> ATR_SIG_LO
         [] off = 1 -> ATR_SIG_HI
         [] off = 2 -> (FORMAT_SS_SD_40 \div 16) % 256
         [] off = 3 -> (FORMAT_SS_SD_40 \div 16) \div 256
         [] off = 4 -> SECTOR_SIZE_SD
         [] OTHER -> 0

\* PRO sectors 1 and 2 each have one phantom (slots 721 and 722); sectors 3, 4
\* and 720 have a phantom too and one hardware status flag that reads 0 (CRC
\* error, data lost, record not found); every other sector is plain
ProSectorHeaderByte(s, r) ==
  CASE r = PSH_commandStatus -> 16
    [] r = PSH_hardwareStatus ->
         CASE s = 3 -> 255 - Pow2(HW_crcError)
           [] s = 4 -> 255 - Pow2(HW_dataLostOrTrack0)
           [] s = NUM_SECTOR_HEADERS -> 255 - Pow2(HW_recordNotFound)
           [] OTHER -> 255
    [] r = PSH_timeout_lsb -> 224
    [] r = PSH_totalPhantoms -> IF s \in {1, 2, 3, 4, NUM_SECTOR_HEADERS} THEN 1 ELSE 0
    [] r = PSH_phantom1 ->
         IF s = 2 THEN 2 ELSE IF s \in {1, 3, 4, NUM_SECTOR_HEADERS} THEN 1 ELSE 0
    [] OTHER -> 0

ProBaseByte(mode, delay, off) ==
  IF off >= PRO_FILE_HEADER_SIZE
  THEN LET s == (off - PRO_FILE_HEADER_SIZE) \div ProSlotSize + 1
           r == (off - PRO_FILE_HEADER_SIZE) % ProSlotSize
       IN  IF r < SIZEOF_PROSectorHeader THEN ProSectorHeaderByte(s, r) ELSE Fill(s)
  ELSE CASE off = PFH_sectorCountHi -> ProSectorCount \div 256
         [] off = PFH_sectorCountLo -> ProSectorCount % 256
         [] off = PFH_magic -> MAGIC_P
         [] off = PFH_phantomSectorMode -> mode
         [] off = PFH_sectorReadDelay -> delay
         [] OTHER -> 0

\* ATX: 40 track records.  Track 0 has five sector entries, the second of
\* which repeats sector 3 (so sector 2 is missing and sector 3 is there twice);
\* the entry of sector 4 has status 8.  Track 1 has all 18 sectors.  The other
\* tracks have no sector (unformatted tracks).
AtxEntries(t) == IF t = 0 THEN 5 ELSE IF t = 1 THEN SECTORS_PER_TRACK ELSE 0
AtxEntryNumber(t, k) == IF t = 0 /\ k = 1 THEN 3 ELSE k + 1
AtxEntryStatus(t, k) == IF t = 0 /\ k = 3 THEN 8 ELSE 0

AtxBaseByte(off) ==
  IF off < AtxFirstRecord
  THEN CASE off = 0 -> 65
         [] off = 1 -> 84
         [] off = 2 -> 56
         [] off = 3 -> 88
         [] off = ATX_DIR_OFFSET_POS -> AtxFirstRecord
         [] OTHER -> 0
  ELSE LET t == (off - AtxFirstRecord) \div AtxRecordSize
           r == (off - AtxFirstRecord) % AtxRecordSize
           k == (r - (AtxListOffset + 8)) \div 8
           e == (r - (AtxListOffset + 8)) % 8
           start == AtxDataOffset + k * SECTOR_SIZE_SD
       IN  CASE r >= AtxDataOffset ->
                  Fill(t * SECTORS_PER_TRACK + (r - AtxDataOffset) \div SECTOR_SIZE_SD + 1)
             [] r = 0 -> AtxRecordSize % 256
             [] r = 1 -> AtxRecordSize \div 256
             [] r = 8 -> t
             [] r = 10 -> AtxEntries(t)
             [] r = 20 -> AtxListOffset
             [] r >= AtxListOffset + 8 /\ r < AtxDataOffset /\ k < AtxEntries(t) ->
                  CASE e = 0 -> AtxEntryNumber(t, k)
                    [] e = 1 -> AtxEntryStatus(t, k)
                    [] e = 4 -> start % 256
                    [] e = 5 -> start \div 256
                    [] OTHER -> 0
             [] OTHER -> 0

BaseByte(f, off) ==
  CASE f \in AtxVarFiles -> AtxVarByte(f, off)
    [] f \in GridFiles -> GridBaseByte(f, off)
    [] f = F_ATR  -> AtrBaseByte(off)
    [] f = F_PRO  -> ProBaseByte(PSM_GLOBAL_FLIP_FLOP, 1, off)
    [] f = F_PROH -> ProBaseByte(PSM_HEURISTIC, 0, off)
    [] f = F_ATX  -> AtxBaseByte(off)
    [] f = F_XFD  -> Fill(off \div SECTOR_SIZE_SD + 1)
    [] OTHER      -> 0

(***************************************************************************)
(* SdFile: the content of a file is its base content, overlaid by a        *)
(* zero-filled prefix [0, zeroedTo) and by the bytes written one by one    *)
(* (over).  disk holds the files that have been written to.                *)
(* The sectors the model reads and writes lie inside the files, so every   *)
(* seekSet succeeds.                                                       *)
(***************************************************************************)
Pristine(f) == [size |-> BaseSize(f), zeroedTo |-> 0, over |-> <<>>]
FileState(d, f) == IF f \in DOMAIN d THEN d[f] ELSE Pristine(f)
FileSizeOf(d, f) == IF f \in DOMAIN d THEN d[f].size ELSE BaseSize(f)

ContentByte(d, f, off) ==
  IF f \notin DOMAIN d THEN BaseByte(f, off)
  ELSE IF off \in DOMAIN d[f].over THEN d[f].over[off]
  ELSE IF off < d[f].zeroedTo THEN 0
  ELSE BaseByte(f, off)

\* SdFile::read(): the byte at the position, or -1 at the end of the file;
\* through an absent handle (NoFile) the result g is whatever the build gives
SdRead(d, f, g, off) ==
  IF f = NoFile THEN g
  ELSE IF ~ULess(off, FileSizeOf(d, f)) THEN -1
  ELSE ContentByte(d, f, off)

\* SdFile::write(buf, n) at position pos
SdWrite(d, f, pos, bytes) ==
  LET st == FileState(d, f)
      n == Len(bytes)
      new == [o \in DOMAIN st.over \cup pos .. (pos + n - 1) |->
                IF o >= pos /\ o < pos + n THEN bytes[o - pos + 1] ELSE st.over[o]]
  IN  [x \in DOMAIN d \cup {f} |->
         IF x = f THEN [size |-> Max(st.size, pos + n), zeroedTo |-> st.zeroedTo, over |-> new]
         ELSE d[x]]

\* n times SdFile::write((byte)0), from position pos on, after a prefix
\* [0, pos) that has just been written over
SdWriteZeros(d, f, pos, n) ==
  LET st == FileState(d, f)
      keep == {o \in DOMAIN st.over : o < pos \/ o >= pos + n}
  IN  [x \in DOMAIN d \cup {f} |->
         IF x = f THEN [size |-> Max(st.size, pos + n),
                        zeroedTo |-> Max(st.zeroedTo, pos + n),
                        over |-> [o \in keep |-> st.over[o]]]
         ELSE d[x]]


(***************************************************************************)
(* The DiskImage object.                                                   *)
(***************************************************************************)
VARIABLES
  m_fileRef,          \* the attached handle, or NoFile (NULL)
  m_fileSize,
  m_type,
  m_headerSize,
  m_sectorSize,
  m_readOnly,
  m_sectorReadDelay,
  m_usePhantoms,
  m_phantomFlip,
  m_sectorHeaders,    \* ATX index: slot -> entry, for the slots that are not
                      \* at the sentinel
  m_sectorBuffer,     \* the SectorPacket the last getSectorData filled
  disk,               \* the files that have been written to
  intBits,            \* width of int in the build (16 on AVR, 32 on ARM)
  last,               \* the last call made on the object, and what it returned
  writes,             \* number of calls that have written to a file
  halted,             \* a call through the absent handle has stopped the program
  steps,              \* number of calls made on the object
  reads,              \* number of getSectorData calls since the last setFile
  kindAssigned        \* some setFile has succeeded, and so assigned m_type

vars == <<m_fileRef, m_fileSize, m_type, m_headerSize, m_sectorSize, m_readOnly,
          m_sectorReadDelay, m_usePhantoms, m_phantomFlip, m_sectorHeaders,
          m_sectorBuffer, disk, intBits, last, writes, halted, steps, reads, kindAssigned>>

\* the fields loadFile may assign
Fields ==
  [m_type |-> m_type, m_headerSize |-> m_headerSize, m_sectorSize |-> m_sectorSize,
   m_readOnly |-> m_readOnly, m_sectorReadDelay |-> m_sectorReadDelay,
   m_usePhantoms |-> m_usePhantoms, m_phantomFlip |-> m_phantomFlip,
   m_sectorHeaders |-> m_sectorHeaders, oob |-> FALSE]

(***************************************************************************)
(* loadFile                                                                *)
(***************************************************************************)
\* byte header[16]: the first 16 bytes, each cast to byte
ReadHeader(d, f) == [i \in 0 .. 15 |-> ToByte(SdRead(d, f, 0, i))]

\* atrHeader->signature == ATR_SIGNATURE
IsATR(header) == header[0] = ATR_SIG_LO /\ header[1] = ATR_SIG_HI

\* atrHeader->secSize
AtrSecSize(header) == header[4] + 256 * header[5]

LoadATR(o, header) ==
  [o EXCEPT !.m_type = TYPE_ATR, !.m_headerSize = 16, !.m_readOnly = FALSE,
            !.m_sectorSize = AtrSecSize(header), !.m_sectorReadDelay = 0]

\* sectorCountHi * 256 + sectorCountLo is computed in int and compared with an
\* unsigned long; (m_fileSize-16) is unsigned long arithmetic
ProDeclaredCount(header, bits) ==
  ToULong(ToInt(header[PFH_sectorCountHi] * 256 + header[PFH_sectorCountLo], bits))

ProExpectedCount(fileSize) ==
  UDiv(ToULong(fileSize - 16), SECTOR_SIZE_SD + SIZEOF_PROSectorHeader)

IsPRO(header, fileSize, bits) ==
  /\ ProDeclaredCount(header, bits) = ProExpectedCount(fileSize)
  /\ header[PFH_magic] = MAGIC_P

\* a loader that starts every phantom mode on the phantom copy
PhantomFirst(o, mode) == [o EXCEPT !.m_usePhantoms = TRUE, !.m_phantomFlip = TRUE]

\* the switch on phantomSectorMode: no default case
ProPhantomMode(o, mode) ==
  CASE mode \in {PSM_SIMPLE, PSM_MINDSCAPE_SPECIAL, PSM_STICKY, PSM_SHIMMERING,
                 PSM_REVERSE_SHIMMER} ->
         [o EXCEPT !.m_usePhantoms = FALSE]
    [] mode = PSM_GLOBAL_FLIP_FLOP ->
         [o EXCEPT !.m_usePhantoms = TRUE, !.m_phantomFlip = FALSE]
    [] mode = PSM_GLOBAL_FLOP_FLIP ->
         [o EXCEPT !.m_usePhantoms = TRUE, !.m_phantomFlip = TRUE]
    [] OTHER -> o

LoadPRO(o, header) ==
  ProPhantomMode(
    [o EXCEPT !.m_type = TYPE_PRO, !.m_readOnly = TRUE, !.m_headerSize = 16,
              !.m_sectorSize = SECTOR_SIZE_SD,
              !.m_sectorReadDelay = header[PFH_sectorReadDelay] * DELAY_UNIT],
    header[PFH_phantomSectorMode])

IsATX(header) ==
  header[0] = 65 /\ header[1] = 84 /\ header[2] = 56 /\ header[3] = 88


\* line 269: the four read() results are combined in int arithmetic (operands
\* taken left to right) and the int is converted to unsigned long; the factors
\* are the code's 256, 512 and 768
DirOffset(r0, r1, r2, r3, bits) ==
  ToULong(ToInt(r0 + r1 * 256 + r2 * 512 + r3 * 768, bits))

\* lines 278-281, 298-301, 324-327: an unsigned long that takes the first
\* read() and then has three int products added to it
Accumulate4(r0, r1, r2, r3, bits) ==
  ToULong(ToULong(r0) + ToULong(ToInt(r1 * 256, bits)) + ToULong(ToInt(r2 * 512, bits))
          + ToULong(ToInt(r3 * 768, bits)))

Read4(d, f, pos, bits) ==
  Accumulate4(SdRead(d, f, 0, pos), SdRead(d, f, 0, pos + 1), SdRead(d, f, 0, pos + 2),
              SdRead(d, f, 0, pos + 3), bits)

\* lines 263-265: a slot at the sentinel.  m_sectorHeaders holds the slots that
\* have been stored into since; every other slot of the array is at the sentinel
ClearedEntry == [sectorNumber |-> SENTINEL_SECTOR, sstatus |-> 0, fileIndex |-> 0]
ClearedHeaders == <<>>
HeaderAt(headers, i) == IF i \in DOMAIN headers THEN headers[i] ELSE ClearedEntry

\* lines 278-301: what the loop reads from the track record at fileIndex
TrackRecord(d, f, bits, fileIndex) ==
  [fileIndex |-> fileIndex,
   trackRecordSize |-> Read4(d, f, fileIndex, bits),
   trackNumber |-> ToByte(SdRead(d, f, 0, fileIndex + 8)),
   sectorCount |-> ToInt(SdRead(d, f, 0, fileIndex + 10)
                         + SdRead(d, f, 0, fileIndex + 11) * 256, bits),
   l2 |-> Read4(d, f, fileIndex + 20, bits)]

\* lines 276-336: the track records the loop visits, in order; each starts
\* trackRecordSize after the one before (line 334)
\* one pass of the loop body: read the record, move to the next (line 334)
TrackPass(d, f, bits, s) ==
  LET t == TrackRecord(d, f, bits, s.fileIndex)
  IN  [fileIndex |-> ToULong(s.fileIndex + t.trackRecordSize),
       tracks |-> Append(s.tracks, t)]

\* n passes in a row: the first n \div 2 of them, then the others
RECURSIVE TrackPasses(_, _, _, _, _)
TrackPasses(d, f, bits, s, n) ==
  IF n = 0 THEN s
  ELSE IF n = 1 THEN TrackPass(d, f, bits, s)
  ELSE CHOOSE r \in {TrackPasses(d, f, bits, h, n - n \div 2) :
                     h \in {TrackPasses(d, f, bits, s, n \div 2)}} : TRUE

ReadTracks(d, f, bits, start) ==
  TrackPasses(d, f, bits, [fileIndex |-> start, tracks |-> <<>>], NUM_TRACKS).tracks

\* a loader that stores the sector number within the track, without the
\* track's first sector added
SectorEntryInTrack(d, f, bits, t, i2) ==
  LET e == ToULong(t.fileIndex + t.l2) + 8 + 8 * i2
  IN  [sectorNumber |-> (ToByte(SdRead(d, f, 0, e)) - 1) % Pow2(16),
       sstatus |-> ToByte(SdRead(d, f, 0, e + 1)),
       fileIndex |-> ToULong(t.fileIndex + Read4(d, f, e + 4, bits))]

\* lines 304-330: the entry the loop stores for sector entry i2 of track record t
SectorEntry(d, f, bits, t, i2) ==
  LET e == ToULong(t.fileIndex + t.l2) + 8 + 8 * i2
      sectorNum == ToByte(SdRead(d, f, 0, e))
      sectorStatus == ToByte(SdRead(d, f, 0, e + 1))
      l2 == Read4(d, f, e + 4, bits)
  IN  [sectorNumber |-> (t.trackNumber * SECTORS_PER_TRACK + (sectorNum - 1)) % Pow2(16),
       sstatus |-> sectorStatus,
       fileIndex |-> ToULong(t.fileIndex + l2)]

\* line 328: the slot the loop stores entry i2 of track record t into
SlotOf(t, i2) == t.trackNumber * SECTORS_PER_TRACK + i2

\* the records that store into slot s: record t stores into s with its entry
\* i2 = s - trackNumber * 18 when 0 <= i2 < sectorCount
Writers(tracks, s) ==
  {i \in 1 .. Len(tracks) :
     /\ s - SlotOf(tracks[i], 0) >= 0
     /\ s - SlotOf(tracks[i], 0) < tracks[i].sectorCount}

\* lines 263-336: m_sectorHeaders after the loops; the last record to store into
\* a slot is the one whose entry stays there
BuildHeaders(d, f, bits, tracks) ==
  [s \in UNION {Max(0, SlotOf(tracks[i], 0))
                 .. Min(NUM_SECTOR_HEADERS - 1, SlotOf(tracks[i], tracks[i].sectorCount - 1)) :
                 i \in 1 .. Len(tracks)} |->
     CHOOSE e \in {SectorEntry(d, f, bits, tracks[i], s - SlotOf(tracks[i], 0)) :
                     i \in {x \in Writers(tracks, s) :
                              \A y \in Writers(tracks, s) : y <= x}} : TRUE]

\* whether some store of the loops lands outside m_sectorHeaders[720]
StoresOutside(tracks) ==
  \E i \in 1 .. Len(tracks) :
    /\ tracks[i].sectorCount > 0
    /\ SlotOf(tracks[i], tracks[i].sectorCount - 1) >= NUM_SECTOR_HEADERS

ParseATX(d, f, bits) ==
  LET start == DirOffset(SdRead(d, f, 0, ATX_DIR_OFFSET_POS),
                         SdRead(d, f, 0, ATX_DIR_OFFSET_POS + 1),
                         SdRead(d, f, 0, ATX_DIR_OFFSET_POS + 2),
                         SdRead(d, f, 0, ATX_DIR_OFFSET_POS + 3), bits)
  IN  CHOOSE p \in {[headers |-> BuildHeaders(d, f, bits, tracks),
                     oob |-> StoresOutside(tracks)] :
                      tracks \in {ReadTracks(d, f, bits, start)}} : TRUE

\* the parse of the ATX file as it is before anything is written to it
PristineATX16 == ParseATX(<<>>, F_ATX, 16)
PristineATX32 == ParseATX(<<>>, F_ATX, 32)

LoadATX(o, d, f, bits) ==
  LET p == IF f = F_ATX /\ f \notin DOMAIN d
           THEN (IF bits = 16 THEN PristineATX16 ELSE PristineATX32)
           ELSE ParseATX(d, f, bits)
  IN  [o EXCEPT !.m_type = TYPE_ATX, !.m_readOnly = TRUE, !.m_sectorReadDelay = 0,
                !.m_sectorSize = 128, !.m_phantomFlip = FALSE,
                !.m_sectorHeaders = p.headers, !.oob = p.oob]

\* char *extension = filename + len - 4, compared with strcmp
Extension(name) == SubSeq(name, Len(name) - 3, Len(name))

IsXFD(name, fileSize) ==
  /\ Extension(name) \in {<<".", "X", "F", "D">>, <<".", "x", "f", "d">>}
  /\ fileSize = FORMAT_SS_SD_40

LoadXFD(o) ==
  [o EXCEPT !.m_type = TYPE_XFD, !.m_readOnly = FALSE, !.m_headerSize = 0,
            !.m_sectorSize = SECTOR_SIZE_SD, !.m_sectorReadDelay = 0]

\* a detector that tries the PRO check before the ATR signature
DetectProFirst(header, name, fileSize, bits) ==
  CASE IsPRO(header, fileSize, bits) -> TYPE_PRO
    [] ~IsPRO(header, fileSize, bits) /\ IsATR(header) -> TYPE_ATR
    [] ~IsPRO(header, fileSize, bits) /\ ~IsATR(header) /\ IsATX(header) -> TYPE_ATX
    [] ~IsPRO(header, fileSize, bits) /\ ~IsATR(header) /\ ~IsATX(header)
         /\ IsXFD(name, fileSize) -> TYPE_XFD
    [] OTHER -> "NONE"

\* which of the four checks of loadFile is the first to pass ("NONE": none)
Detect(header, name, fileSize, bits) ==
  CASE IsATR(header) -> TYPE_ATR
    [] ~IsATR(header) /\ IsPRO(header, fileSize, bits) -> TYPE_PRO
    [] ~IsATR(header) /\ ~IsPRO(header, fileSize, bits) /\ IsATX(header) -> TYPE_ATX
    [] ~IsATR(header) /\ ~IsPRO(header, fileSize, bits) /\ ~IsATX(header)
         /\ IsXFD(name, fileSize) -> TYPE_XFD
    [] OTHER -> "NONE"

\* a loader that assigns a kind although no check passed
GuessKind(o, d, f, bits, header, kind) ==
  CASE kind = TYPE_ATR -> [ok |-> TRUE, o |-> LoadATR(o, header)]
    [] kind = TYPE_PRO -> [ok |-> TRUE, o |-> LoadPRO(o, header)]
    [] kind = TYPE_ATX -> [ok |-> TRUE, o |-> LoadATX(o, d, f, bits)]
    [] kind = TYPE_XFD -> [ok |-> TRUE, o |-> LoadXFD(o)]
    [] OTHER -> [ok |-> FALSE, o |-> LoadXFD(o)]

\* the assignments and the return value of loadFile, kind being the check that
\* passed; when none passed no field is assigned (line 360)
LoadKind(o, d, f, bits, header, kind) ==
  CASE kind = TYPE_ATR -> [ok |-> TRUE, o |-> LoadATR(o, header)]
    [] kind = TYPE_PRO -> [ok |-> TRUE, o |-> LoadPRO(o, header)]
    [] kind = TYPE_ATX -> [ok |-> TRUE, o |-> LoadATX(o, d, f, bits)]
    [] kind = TYPE_XFD -> [ok |-> TRUE, o |-> LoadXFD(o)]
    [] OTHER -> [ok |-> FALSE, o |-> o]

\* loadFile(file): the fields after the call, and its return value.  The
\* header is read once (lines 194-197) and the checks run on that copy.  The
\* ATX branch is the one compiled with ATX_IMAGES defined.
LoadFile(o, d, f, fileSize, bits) ==
  CHOOSE r \in {LoadKind(o, d, f, bits, header, kind) :
                  <<header, kind>> \in
                    {<<h, Detect(h, FileName(f), fileSize, bits)>> :
                       h \in {ReadHeader(d, f)}}} : TRUE


(***************************************************************************)
(* getSectorData                                                           *)
(***************************************************************************)
StatusFrame(c, h, lsb, msb) ==
  [commandStatus |-> c, hardwareStatus |-> h, timeout_lsb |-> lsb, timeout_msb |-> msb]

\* line 62: offset of the PRO sector header of a sector
ProHeaderPos(headerSize, sectorSize, sector) ==
  ToULong(headerSize + (sector - 1) * (sectorSize + SIZEOF_PROSectorHeader))

\* line 79: offset of the payload of phantom number phantom1
ProPhantomPos(headerSize, sectorSize, phantom1) ==
  ToULong(headerSize
          + ((NUM_SECTOR_HEADERS + phantom1) - 1) * (sectorSize + SIZEOF_PROSectorHeader)
          + SIZEOF_PROSectorHeader)

\* an error condition that looks at the CRC flag alone
CrcErrorOnly(hw) == Bit(hw, HW_crcError) = 0

\* line 74: the error condition on the three hardware status flags
ProHeaderError(hw) ==
  \/ Bit(hw, HW_crcError) = 0
  \/ Bit(hw, HW_dataLostOrTrack0) = 0
  \/ Bit(hw, HW_recordNotFound) = 0

\* line 78: whether the read is redirected to the phantom
ProUsePhantom(usePhantoms, totalPhantoms, flip) ==
  usePhantoms /\ totalPhantoms > 0 /\ flip

\* a read that inverts the flip only when the sector header shows no error
FlipUnlessError(flip, err) == IF err THEN flip ELSE ~flip

\* line 82: after the if/else, whatever err is
ProNextFlip(flip, err) == ~flip

\* lines 60-82: frame is the status frame before the call
ReadPRO(d, f, g, sector, headerSize, sectorSize, usePhantoms, flip, frame) ==
  LET hpos == ProHeaderPos(headerSize, sectorSize, sector)
      h == [i \in 0 .. (SIZEOF_PROSectorHeader - 1) |-> ToByte(SdRead(d, f, g, hpos + i))]
      err == ProHeaderError(h[PSH_hardwareStatus])
      phantom == ~err /\ ProUsePhantom(usePhantoms, h[PSH_totalPhantoms], flip)
  IN  [error |-> err,
       validStatusFrame |-> TRUE,
       statusFrame |-> StatusFrame(h[PSH_commandStatus], h[PSH_hardwareStatus],
                                   h[PSH_timeout_lsb], h[PSH_timeout_msb]),
       dataPos |-> IF phantom THEN ProPhantomPos(headerSize, sectorSize, h[PSH_phantom1])
                   ELSE hpos + SIZEOF_PROSectorHeader,
       flip |-> ProNextFlip(flip, err)]

\* a search that stops at the first slot holding the target, whatever the flip
FindFirstSlot(headers, target, flip) ==
  LET m == {i \in 0 .. (NUM_SECTOR_HEADERS - 1) : HeaderAt(headers, i).sectorNumber = target}
  IN  IF m = {} THEN -1 ELSE CHOOSE i \in m : \A j \in m : i <= j

\* lines 85-93: the slot the loop leaves in ix: -1 when no slot holds the
\* target, the first such slot when the loop breaks there (flip false), the
\* last such slot when it runs on to the end (flip true)
FindSlot(headers, target, flip) ==
  LET m == {i \in 0 .. (NUM_SECTOR_HEADERS - 1) : HeaderAt(headers, i).sectorNumber = target}
  IN  IF m = {} THEN -1
      ELSE IF ~flip THEN CHOOSE i \in m : \A j \in m : i <= j
      ELSE CHOOSE i \in m : \A j \in m : j <= i

\* a missing sector reported with every hardware status bit high
MissingAsGood(frame) ==
  [error |-> TRUE,
   validStatusFrame |-> TRUE,
   statusFrame |-> StatusFrame(CMD_STATUS_ATX, 255, TIMEOUT_ATX, frame.timeout_msb),
   dataPos |-> 0]

\* lines 104-112
AtxMissing(frame) ==
  [error |-> TRUE,
   validStatusFrame |-> TRUE,
   statusFrame |-> StatusFrame(CMD_STATUS_ATX, HW_MISSING_SECTOR, TIMEOUT_ATX,
                               frame.timeout_msb),
   dataPos |-> 0]

\* a found sector reported with the recorded status byte as it is
AtxFoundRaw(entry, frame) ==
  [error |-> entry.sstatus > 0,
   validStatusFrame |-> TRUE,
   statusFrame |-> StatusFrame(CMD_STATUS_ATX, entry.sstatus, TIMEOUT_ATX, frame.timeout_msb),
   dataPos |-> entry.fileIndex]

\* lines 95-103
AtxFound(entry, frame) ==
  [error |-> entry.sstatus > 0,
   validStatusFrame |-> TRUE,
   statusFrame |-> StatusFrame(CMD_STATUS_ATX, 255 - entry.sstatus, TIMEOUT_ATX,
                               frame.timeout_msb),
   dataPos |-> entry.fileIndex]

\* an ATX read that leaves the flip as it is
FlipKept(flip) == flip

\* line 116
AtxNextFlip(flip) == ~flip

\* lines 84-116
ReadATX(headers, sector, flip, frame) ==
  LET ix == FindSlot(headers, ToULong(sector - 1), flip)
      r == IF ix > -1 THEN AtxFound(HeaderAt(headers, ix), frame) ELSE AtxMissing(frame)
  IN  [error |-> r.error, validStatusFrame |-> r.validStatusFrame,
       statusFrame |-> r.statusFrame, dataPos |-> r.dataPos, flip |-> AtxNextFlip(flip)]

\* lines 118-121
ReadPlain(sector, headerSize, sectorSize, flip, frame) ==
  [error |-> FALSE, validStatusFrame |-> FALSE, statusFrame |-> frame,
   dataPos |-> ToULong(headerSize + (sector - 1) * sectorSize), flip |-> flip]

\* lines 129-131
ReadPayload(d, f, g, pos, sectorSize) ==
  [i \in 1 .. sectorSize |-> ToByte(SdRead(d, f, g, pos + i - 1))]


(***************************************************************************)
(* Bounds and inputs of the model                                          *)
(***************************************************************************)
MaxWrites == 1
MaxOps == 4

\* every call is one more step of the run
Call == steps < MaxOps /\ steps' = steps + 1
\* the logical sectors the protocol layer asks for (it asks for none below 1)
ReadSectors == {1, 2, 3, 4, NUM_SECTOR_HEADERS}
WriteSectors == {1, 2}
WriteFills == {170}
Densities == {DENSITY_SD, DENSITY_ED}
\* the files format is called with
FormatFiles == {F_ATR, F_XFD}
\* what a read() through the absent handle may return
GarbageReads == {-1, 0}
\* values the fields the constructor leaves unset may hold
UninitTypes == {TYPE_GARBAGE, TYPE_ATR, TYPE_PRO, TYPE_ATX, TYPE_XFD}
UninitHeaderSizes == {0, 16}
UninitSectorSizes == {SECTOR_SIZE_SD}
UninitFileSizes == {0}
UninitDelays == {0}
MainIntWidths == {16}
DetectIntWidths == {16, 32}

NoCall == [op |-> "none", file |-> NoFile, sector |-> 0, ret |-> -1, dataPos |-> -1,
           viaNull |-> FALSE, delay |-> 0, oob |-> FALSE, flipBefore |-> FALSE,
           prevType |-> TYPE_GARBAGE, prevAssigned |-> FALSE]

\* DiskImage::DiskImage(): only m_fileRef is set
Constructed ==
  /\ m_fileRef = NoFile
  /\ m_fileSize \in UninitFileSizes
  /\ m_type \in UninitTypes
  /\ m_headerSize \in UninitHeaderSizes
  /\ m_sectorSize \in UninitSectorSizes
  /\ m_readOnly \in BOOLEAN
  /\ m_sectorReadDelay \in UninitDelays
  /\ m_usePhantoms \in BOOLEAN
  /\ m_phantomFlip \in BOOLEAN
  /\ m_sectorHeaders = ClearedHeaders
  /\ m_sectorBuffer = [length |-> 0, error |-> FALSE, validStatusFrame |-> FALSE,
                       statusFrame |-> StatusFrame(0, 0, 0, 0), data |-> <<>>]
  /\ disk = <<>>
  /\ last = NoCall
  /\ writes = 0
  /\ halted = FALSE
  /\ steps = 0
  /\ reads = 0
  /\ kindAssigned = FALSE

\* the build for the AVR boards: int is 16 bits wide
Init == Constructed /\ intBits \in MainIntWidths

\* a freshly constructed object, in a build of either int width
InitDetect == Constructed /\ intBits \in DetectIntWidths

(***************************************************************************)
(* setFile(file)                                                           *)
(***************************************************************************)
SetFile(f) ==
  /\ Call
  /\ ~halted
  /\ \E size \in {FileSizeOf(disk, f)} :
       \E r \in {LoadFile(Fields, disk, f, size, intBits)} :
         /\ m_fileRef' = IF r.ok THEN f ELSE NoFile
         /\ m_fileSize' = size
         /\ m_type' = r.o.m_type
         /\ m_headerSize' = r.o.m_headerSize
         /\ m_sectorSize' = r.o.m_sectorSize
         /\ m_readOnly' = r.o.m_readOnly
         /\ m_sectorReadDelay' = r.o.m_sectorReadDelay
         /\ m_usePhantoms' = r.o.m_usePhantoms
         /\ m_phantomFlip' = r.o.m_phantomFlip
         /\ m_sectorHeaders' = r.o.m_sectorHeaders
         /\ last' = [NoCall EXCEPT !.op = "setFile", !.file = f,
                                   !.ret = IF r.ok THEN 1 ELSE 0, !.oob = r.o.oob,
                                   !.prevType = m_type, !.prevAssigned = kindAssigned]
         /\ kindAssigned' = (kindAssigned \/ r.ok)
  /\ reads' = 0
  /\ UNCHANGED <<m_sectorBuffer, disk, intBits, writes, halted>>

(***************************************************************************)
(* getSectorData(sector)                                                   *)
(***************************************************************************)
SectorRead(sector, g) ==
  CASE m_type = TYPE_PRO ->
         ReadPRO(disk, m_fileRef, g, sector, m_headerSize, m_sectorSize, m_usePhantoms,
                 m_phantomFlip, m_sectorBuffer.statusFrame)
    [] m_type = TYPE_ATX ->
         ReadATX(m_sectorHeaders, sector, m_phantomFlip, m_sectorBuffer.statusFrame)
    [] OTHER ->
         ReadPlain(sector, m_headerSize, m_sectorSize, m_phantomFlip,
                   m_sectorBuffer.statusFrame)

GetSectorDataWith(sector, g) ==
  \E r \in {SectorRead(sector, g)} :
      /\ m_phantomFlip' = r.flip
      /\ m_sectorBuffer' = [length |-> m_sectorSize, error |-> r.error,
                            validStatusFrame |-> r.validStatusFrame,
                            statusFrame |-> r.statusFrame,
                            data |-> ReadPayload(disk, m_fileRef, g, r.dataPos, m_sectorSize)]
      /\ last' = [NoCall EXCEPT !.op = "getSectorData", !.file = m_fileRef,
                                !.sector = sector, !.ret = IF r.error THEN 0 ELSE 1,
                                !.dataPos = r.dataPos, !.viaNull = (m_fileRef = NoFile),
                                !.delay = m_sectorReadDelay,
                                !.flipBefore = m_phantomFlip]
      /\ reads' = reads + 1
      /\ UNCHANGED <<m_fileRef, m_fileSize, m_type, m_headerSize, m_sectorSize, m_readOnly,
                     m_sectorReadDelay, m_usePhantoms, m_sectorHeaders, disk, intBits,
                     writes, halted, kindAssigned>>

\* with a handle attached
GetSectorData(sector) ==
  /\ Call
  /\ ~halted
  /\ m_fileRef # NoFile
  /\ GetSectorDataWith(sector, 0)

\* with no handle: m_fileRef->seekSet() and m_fileRef->read() go through NULL;
\* the call either returns, its reads having given g, or stops the program
GetSectorDataNull(sector) ==
  /\ Call
  /\ ~halted
  /\ m_fileRef = NoFile
  /\ \/ \E g \in GarbageReads : GetSectorDataWith(sector, g)
     \/ /\ halted' = TRUE
        /\ last' = [NoCall EXCEPT !.op = "getSectorData", !.sector = sector,
                                  !.viaNull = TRUE]
        /\ UNCHANGED <<m_fileRef, m_fileSize, m_type, m_headerSize, m_sectorSize,
                       m_readOnly, m_sectorReadDelay, m_usePhantoms, m_phantomFlip,
                       m_sectorHeaders, m_sectorBuffer, disk, intBits, writes, reads,
                       kindAssigned>>


(***************************************************************************)
(* writeSectorData(sector, data, len)                                      *)
(***************************************************************************)
\* an offset that counts the sectors from 0
WriteOffsetFromZero(headerSize, sectorSize, sector) ==
  ToULong(headerSize + sector * sectorSize)

\* line 142
WriteOffset(headerSize, sectorSize, sector) ==
  ToULong(headerSize + (sector - 1) * sectorSize)

\* a writeSectorData without the check of line 140
WriteUnchecked(readOnly) == TRUE

\* line 140: whether the call goes on to write
WriteAllowed(readOnly) == ~readOnly

SectorBytes(fill, len) == [i \in 1 .. len |-> fill]

\* refused: returns false, i.e. 0 bytes
WriteRefused(sector) ==
  /\ Call
  /\ ~halted
  /\ ~WriteAllowed(m_readOnly)
  /\ last' = [NoCall EXCEPT !.op = "writeSectorData", !.file = m_fileRef,
                            !.sector = sector, !.ret = 0]
  /\ UNCHANGED <<m_fileRef, m_fileSize, m_type, m_headerSize, m_sectorSize, m_readOnly,
                 m_sectorReadDelay, m_usePhantoms, m_phantomFlip, m_sectorHeaders,
                 m_sectorBuffer, disk, intBits, writes, halted, reads, kindAssigned>>

\* written through the attached handle; SdFile::write returns the count
WriteSectorData(sector, fill) ==
  /\ Call
  /\ ~halted
  /\ m_fileRef # NoFile
  /\ WriteAllowed(m_readOnly)
  /\ writes < MaxWrites
  /\ LET bytes == SectorBytes(fill, m_sectorSize)
         offset == WriteOffset(m_headerSize, m_sectorSize, sector)
     IN  /\ disk' = SdWrite(disk, m_fileRef, offset, bytes)
         /\ last' = [NoCall EXCEPT !.op = "writeSectorData", !.file = m_fileRef,
                                   !.sector = sector, !.ret = Len(bytes),
                                   !.dataPos = offset]
  /\ writes' = writes + 1
  /\ UNCHANGED <<m_fileRef, m_fileSize, m_type, m_headerSize, m_sectorSize, m_readOnly,
                 m_sectorReadDelay, m_usePhantoms, m_phantomFlip, m_sectorHeaders,
                 m_sectorBuffer, intBits, halted, reads, kindAssigned>>

\* with no handle and m_readOnly false: m_fileRef->seekSet() and
\* m_fileRef->write() go through NULL; the call returns some count or stops
\* the program
WriteSectorDataNull(sector) ==
  /\ Call
  /\ ~halted
  /\ m_fileRef = NoFile
  /\ WriteAllowed(m_readOnly)
  /\ \E ret \in {0, m_sectorSize} :
       last' = [NoCall EXCEPT !.op = "writeSectorData", !.sector = sector, !.ret = ret,
                              !.viaNull = TRUE]
  /\ halted' \in BOOLEAN
  /\ UNCHANGED <<m_fileRef, m_fileSize, m_type, m_headerSize, m_sectorSize, m_readOnly,
                 m_sectorReadDelay, m_usePhantoms, m_phantomFlip, m_sectorHeaders,
                 m_sectorBuffer, disk, intBits, writes, reads, kindAssigned>>

(***************************************************************************)
(* format(file, density)                                                   *)
(***************************************************************************)
\* lines 158-161
FormatLength(density) == IF density = DENSITY_ED THEN FORMAT_SS_ED_40 ELSE FORMAT_SS_SD_40

\* lines 168-172: the ATRHeader written, byte by byte
FormatHeader(length) ==
  [i \in 1 .. SIZEOF_ATRHeader |->
     CASE i = 1 -> ATR_SIG_LO
       [] i = 2 -> ATR_SIG_HI
       [] i = 3 -> ((length \div 16) % Pow2(16)) % 256
       [] i = 4 -> ((length \div 16) % Pow2(16)) \div 256
       [] i = 5 -> SECTOR_SIZE_SD % 256
       [] i = 6 -> SECTOR_SIZE_SD \div 256
       [] OTHER -> 0]

\* a format that writes the ATR header and leaves the sectors as they are
FormatHeaderOnly(d, f, type, density) ==
  IF type = TYPE_ATR THEN SdWrite(d, f, 0, FormatHeader(FormatLength(density))) ELSE d

\* lines 164-179: the file after the header (ATR only) and the zero bytes
Formatted(d, f, type, density) ==
  LET length == FormatLength(density)
  IN  IF type = TYPE_ATR
      THEN SdWriteZeros(SdWrite(d, f, 0, FormatHeader(length)), f, SIZEOF_ATRHeader, length)
      ELSE SdWriteZeros(d, f, 0, length)

\* line 156: whether the call goes on to write
FormatAllowed(readOnly) == ~readOnly

\* refused (line 184): the file is not touched
FormatRefused(f, density) ==
  /\ Call
  /\ ~halted
  /\ ~FormatAllowed(m_readOnly)
  /\ last' = [NoCall EXCEPT !.op = "format", !.file = f, !.ret = 0]
  /\ UNCHANGED <<m_fileRef, m_fileSize, m_type, m_headerSize, m_sectorSize, m_readOnly,
                 m_sectorReadDelay, m_usePhantoms, m_phantomFlip, m_sectorHeaders,
                 m_sectorBuffer, disk, intBits, writes, halted, reads, kindAssigned>>

\* the file written is the one the caller passes, attached or not; no field of
\* the object is assigned
Format(f, density) ==
  /\ Call
  /\ ~halted
  /\ FormatAllowed(m_readOnly)
  /\ writes < MaxWrites
  /\ disk' = Formatted(disk, f, m_type, density)
  /\ last' = [NoCall EXCEPT !.op = "format", !.file = f, !.ret = 1]
  /\ writes' = writes + 1
  /\ UNCHANGED <<m_fileRef, m_fileSize, m_type, m_headerSize, m_sectorSize, m_readOnly,
                 m_sectorReadDelay, m_usePhantoms, m_phantomFlip, m_sectorHeaders,
                 m_sectorBuffer, intBits, halted, reads, kindAssigned>>

(***************************************************************************)
(* The queries                                                             *)
(***************************************************************************)
hasImage == m_fileRef # NoFile
getType == m_type
getSectorSize == m_sectorSize
isReadOnly == m_readOnly
hasCopyProtection == m_type = TYPE_PRO \/ m_type = TYPE_ATX
isEnhancedDensity ==
  m_fileSize = FORMAT_SS_ED_35 + m_headerSize \/ m_fileSize = FORMAT_SS_ED_40 + m_headerSize
isDoubleDensity ==
  m_fileSize = FORMAT_SS_DD_35 + m_headerSize \/ m_fileSize = FORMAT_SS_DD_40 + m_headerSize

Next ==
  \/ \E f \in MainFiles : SetFile(f)
  \/ \E s \in ReadSectors : GetSectorData(s)
  \/ \E s \in ReadSectors : GetSectorDataNull(s)
  \/ \E s \in WriteSectors : WriteRefused(s)
  \/ \E s \in WriteSectors, b \in WriteFills : WriteSectorData(s, b)
  \/ \E s \in WriteSectors : WriteSectorDataNull(s)
  \/ \E f \in FormatFiles, dens \in Densities : FormatRefused(f, dens)
  \/ \E f \in FormatFiles, dens \in Densities : Format(f, dens)

Spec == Init /\ [][Next]_vars

\* the format detector alone: one setFile on a freshly constructed object
DetectFile(f) == steps = 0 /\ SetFile(f)
NextDetect == \E f \in GridFiles : DetectFile(f)
SpecDetect == InitDetect /\ [][NextDetect]_vars

\* the ATX index builder alone: one setFile on a freshly constructed object
InitIndex ==
  /\ Constructed
  /\ intBits \in DetectIntWidths
  /\ m_type = TYPE_GARBAGE
AttachIndexed(f) == steps = 0 /\ SetFile(f)
NextIndex == \E f \in AtxVarFiles : AttachIndexed(f)
SpecIndex == InitIndex /\ [][NextIndex]_vars

(***************************************************************************)
(* Properties of getSectorData                                             *)
(***************************************************************************)
\* C1: on an attached PRO or ATX image every getSectorData call inverts
\* m_phantomFlip, whatever branch the call takes (error flags, phantom
\* redirect, matched slot, missing sector); on an attached ATR or XFD image
\* no getSectorData call changes m_phantomFlip.
C1_FlipAlternates ==
  [][(last'.op = "getSectorData" /\ m_fileRef # NoFile) =>
       /\ m_type \in {TYPE_PRO, TYPE_ATX} => m_phantomFlip' = ~m_phantomFlip
       /\ m_type \in {TYPE_ATR, TYPE_XFD} => m_phantomFlip' = m_phantomFlip]_vars

\* a second or later read of a PRO image has come back with the error flag set
C1_Witness ==
  /\ last.op = "getSectorData"
  /\ last.file = F_PRO
  /\ m_type = TYPE_PRO
  /\ reads >= 2
  /\ m_sectorBuffer.error
  /\ m_phantomFlip # last.flipBefore

\* C2 as the specification words it: after a getSectorData call on an attached
\* image of any format, m_phantomFlip is the inverse of what it was before.
C2_FlipEveryFormat ==
  (last.op = "getSectorData" /\ last.file # NoFile) => m_phantomFlip = ~last.flipBefore

\* C2: after a getSectorData call on an attached image, m_phantomFlip is the
\* inverse of its value before the call when the image is PRO or ATX, whatever
\* the path taken inside the call, and is that value itself when the image is
\* ATR or XFD.
C2_FlipOncePerProtectedRead ==
  (last.op = "getSectorData" /\ last.file # NoFile) =>
    /\ m_type \in {TYPE_ATR, TYPE_PRO, TYPE_ATX, TYPE_XFD}
    /\ m_phantomFlip = IF hasCopyProtection THEN ~last.flipBefore ELSE last.flipBefore

\* an ATX read of a sector no slot maps, made with the flip set
C2_Witness ==
  /\ last.op = "getSectorData"
  /\ last.file = F_ATX
  /\ last.flipBefore
  /\ ~m_phantomFlip
  /\ m_sectorBuffer.error
  /\ m_sectorBuffer.statusFrame.hardwareStatus = HW_MISSING_SECTOR

\* C3: with a PRO image of phantom mode GLOBAL_FLIP_FLOP attached, the first
\* getSectorData call after the attach, when it asks for a sector with a
\* phantom and no error flag, takes its payload from the sector's own slot, and
\* the call right after it, when it asks for such a sector, takes its payload
\* from slot 720 + phantom1, one sector header into that slot.
C3_PrimaryThenPhantom ==
  LET f == last.file
      s == last.sector
      hdr == PRO_FILE_HEADER_SIZE + (s - 1) * ProSlotSize
      own == hdr + SIZEOF_PROSectorHeader
      phantom1 == ContentByte(disk, f, hdr + PSH_phantom1)
      other == PRO_FILE_HEADER_SIZE + (NUM_SECTOR_HEADERS + phantom1 - 1) * ProSlotSize
               + SIZEOF_PROSectorHeader
      from == IF reads = 1 THEN own ELSE other
  IN  (/\ last.op = "getSectorData"
       /\ f # NoFile
       /\ m_type = TYPE_PRO
       /\ ContentByte(disk, f, PFH_phantomSectorMode) = PSM_GLOBAL_FLIP_FLOP
       /\ reads \in {1, 2}
       /\ ContentByte(disk, f, hdr + PSH_totalPhantoms) > 0
       /\ ~m_sectorBuffer.error)
      => /\ last.dataPos = from
         /\ m_sectorBuffer.data = [i \in 1 .. SECTOR_SIZE_SD |-> ContentByte(disk, f, from + i - 1)]

\* the second read after the attach asked for sector 2, whose phantom is number
\* 2, and its payload is that of slot 722
C3_Witness ==
  /\ last.op = "getSectorData"
  /\ last.file = F_PRO
  /\ reads = 2
  /\ last.sector = 2
  /\ ~m_sectorBuffer.error
  /\ last.dataPos = PRO_FILE_HEADER_SIZE + (NUM_SECTOR_HEADERS + 2 - 1) * ProSlotSize
                    + SIZEOF_PROSectorHeader
  /\ m_sectorBuffer.data[1] = Fill(NUM_SECTOR_HEADERS + 2)

(***************************************************************************)
(* Properties of read-only and unattached images                           *)
(***************************************************************************)
\* C4: while a PRO or ATX image is attached it is read-only, every
\* writeSectorData call returns 0, every format call returns false, and no
\* getSectorData, writeSectorData or format call changes a byte of any file.
C4_ReadOnlyUntouched ==
  [][(m_fileRef # NoFile /\ m_type \in {TYPE_PRO, TYPE_ATX}) =>
       /\ m_readOnly
       /\ last'.op \in {"writeSectorData", "format"} => last'.ret = 0
       /\ last'.op \in {"getSectorData", "writeSectorData", "format"} => disk' = disk]_vars

\* a writeSectorData call on an attached PRO image has returned 0, and no file
\* has been written
C4_Witness ==
  /\ m_fileRef \in {F_PRO, F_PROH}
  /\ m_type = TYPE_PRO
  /\ last.op = "writeSectorData"
  /\ last.ret = 0
  /\ disk = <<>>

\* C5 as the specification words it: a getSectorData or writeSectorData call
\* made with no handle attached reports failure and goes nowhere through the
\* absent handle.
C5_NoHandleRejects ==
  (last.op \in {"getSectorData", "writeSectorData"} /\ last.file = NoFile) =>
    (last.ret = 0 /\ ~last.viaNull)

(***************************************************************************)
(* Properties of setFile                                                   *)
(***************************************************************************)
\* C6 as the specification words it: once a setFile has succeeded, m_type
\* never takes another value.
C6_KindNeverChanges == [][kindAssigned => m_type' = m_type]_vars

\* C6: m_type is assigned only by a setFile that succeeds, to one of the four
\* kinds; no getSectorData, writeSectorData, format or failed setFile changes
\* it, and a later setFile that succeeds with a file of another format replaces
\* it.
C6_KindSetByAttachOnly ==
  [][/\ m_type' # m_type => (last'.op = "setFile" /\ last'.ret = 1)
     /\ (last'.op = "setFile" /\ last'.ret = 1) =>
          m_type' = Detect(ReadHeader(disk, last'.file), FileName(last'.file),
                           FileSizeOf(disk, last'.file), intBits)]_vars

\* a setFile has succeeded on an object whose kind an earlier setFile had
\* assigned, and the kind is now another one
C6_Witness ==
  /\ last.op = "setFile"
  /\ last.ret = 1
  /\ last.prevAssigned
  /\ last.prevType # m_type

\* C7 as the specification words it: a setFile that fails leaves the object
\* without an image and with every field as it was before the call.
C7_FailedAttachKeepsNothing ==
  [][(last'.op = "setFile" /\ last'.ret = 0) =>
       /\ ~hasImage'
       /\ m_fileSize' = m_fileSize
       /\ m_type' = m_type
       /\ m_headerSize' = m_headerSize
       /\ m_sectorSize' = m_sectorSize
       /\ m_readOnly' = m_readOnly
       /\ m_sectorReadDelay' = m_sectorReadDelay
       /\ m_usePhantoms' = m_usePhantoms
       /\ m_phantomFlip' = m_phantomFlip]_vars

(***************************************************************************)
(* Properties of ATX reads                                                 *)
(***************************************************************************)
\* C8: with an ATX image attached, a getSectorData call for a sector that no
\* slot of m_sectorHeaders holds returns with error set and a valid status
\* frame of hardware status 0xF7, command status 0x10 and timeout 0xE0,
\* whichever way m_phantomFlip stood before the call.
C8_MissingSectorFrame ==
  (/\ last.op = "getSectorData"
   /\ last.file # NoFile
   /\ m_type = TYPE_ATX
   /\ \A i \in 0 .. (NUM_SECTOR_HEADERS - 1) :
        HeaderAt(m_sectorHeaders, i).sectorNumber # last.sector - 1)
  => /\ m_sectorBuffer.error
     /\ m_sectorBuffer.validStatusFrame
     /\ m_sectorBuffer.statusFrame.hardwareStatus = 247
     /\ m_sectorBuffer.statusFrame.commandStatus = 16
     /\ m_sectorBuffer.statusFrame.timeout_lsb = 224

\* sector 2 of the ATX image, which no slot holds, has been read with the flip
\* set, after a read made with the flip clear
C8_Witness ==
  /\ last.op = "getSectorData"
  /\ last.file = F_ATX
  /\ last.sector = 2
  /\ last.flipBefore
  /\ reads >= 2
  /\ m_sectorBuffer.error
  /\ m_sectorBuffer.statusFrame.hardwareStatus = 247

(***************************************************************************)
(* Properties of the format detection, checked under SpecDetect            *)
(***************************************************************************)
\* C9: the kind setFile assigns is that of the first check to pass, the checks
\* taken in the order ATR, PRO, ATX, XFD, and setFile fails when none passes; a
\* file with the ATR signature is ATR even when it passes the PRO check too; a
\* file is PRO only if the sector count of its header is
\* (fileSize - 16) / (128 + 12) and its magic byte is 'P'.
C9_FirstMatchInOrder ==
  last.op = "setFile" =>
    LET f == last.file
        header == ReadHeader(disk, f)
        size == FileSizeOf(disk, f)
        atr == IsATR(header)
        pro == IsPRO(header, size, intBits)
        atx == IsATX(header)
        xfd == IsXFD(FileName(f), size)
        kindIs(t) == last.ret = 1 /\ m_fileRef = f /\ m_type = t
    IN  /\ atr => kindIs(TYPE_ATR)
        /\ (~atr /\ pro) => kindIs(TYPE_PRO)
        /\ (~atr /\ ~pro /\ atx) => kindIs(TYPE_ATX)
        /\ (~atr /\ ~pro /\ ~atx /\ xfd) => kindIs(TYPE_XFD)
        /\ (~atr /\ ~pro /\ ~atx /\ ~xfd) => (last.ret = 0 /\ m_fileRef = NoFile)
        /\ kindIs(TYPE_PRO) =>
             /\ size >= 16
             /\ header[0] * 256 + header[1] = (size - 16) \div (128 + 12)
             /\ header[2] = 80

\* a file that has the ATR signature and passes the PRO check has been attached
\* as ATR
C9_Witness ==
  /\ last.op = "setFile"
  /\ last.ret = 1
  /\ IsATR(ReadHeader(disk, last.file))
  /\ IsPRO(ReadHeader(disk, last.file), FileSizeOf(disk, last.file), intBits)
  /\ m_type = TYPE_ATR

\* C10 as the specification words it: a file that passes no ATR, PRO or ATX
\* check is attached as XFD exactly when its extension is ".xfd" in any mix of
\* upper and lower case and its size is that of a single-sided single-density
\* 40-track image; it then has header size 0 and sector size 128 and is
\* writable.
C10_XfdAnyCase ==
  last.op = "setFile" =>
    LET f == last.file
        header == ReadHeader(disk, f)
        size == FileSizeOf(disk, f)
        lower(c) == CASE c = "X" -> "x" [] c = "F" -> "f" [] c = "D" -> "d" [] OTHER -> c
        ext == [i \in 1 .. 4 |-> lower(Extension(FileName(f))[i])]
        asXfd == last.ret = 1 /\ m_type = TYPE_XFD
    IN  (~IsATR(header) /\ ~IsPRO(header, size, intBits) /\ ~IsATX(header)) =>
          /\ asXfd <=> (ext = <<".", "x", "f", "d">> /\ size = FORMAT_SS_SD_40)
          /\ asXfd => (m_headerSize = 0 /\ m_sectorSize = 128 /\ ~m_readOnly)

(***************************************************************************)
(* Properties of format and writeSectorData                                *)
(***************************************************************************)
\* C11: with a writable ATR image attached, a format call of either density
\* made on the attached handle that returns true, followed at once by a
\* getSectorData call for sector 1, gives a packet with error clear and
\* getSectorSize() data bytes, all of them zero.
C11_FormatThenReadZero ==
  [][(/\ last.op = "format"
      /\ last.ret = 1
      /\ m_fileRef # NoFile
      /\ last.file = m_fileRef
      /\ m_type = TYPE_ATR
      /\ ~m_readOnly
      /\ last'.op = "getSectorData"
      /\ last'.sector = 1)
     => /\ ~m_sectorBuffer'.error
        /\ m_sectorBuffer'.length = getSectorSize
        /\ m_sectorBuffer'.data = [i \in 1 .. getSectorSize |-> 0]]_vars

\* sector 1 of the ATR image has been read after an enhanced-density format of
\* the attached handle, and the bytes are zero
C11_Witness ==
  /\ last.op = "getSectorData"
  /\ last.file = F_ATR
  /\ last.sector = 1
  /\ m_type = TYPE_ATR
  /\ F_ATR \in DOMAIN disk
  /\ disk[F_ATR].zeroedTo = SIZEOF_ATRHeader + FORMAT_SS_ED_40
  /\ ~m_sectorBuffer.error
  /\ m_sectorBuffer.data = [i \in 1 .. SECTOR_SIZE_SD |-> 0]

(***************************************************************************)
(* Properties of the ATX index                                             *)
(***************************************************************************)
\* the slots of m_sectorHeaders that hold logical sector s
SlotsOfSector(s) ==
  {i \in 0 .. (NUM_SECTOR_HEADERS - 1) : HeaderAt(m_sectorHeaders, i).sectorNumber = s - 1}

\* C12: with an ATX image attached, a getSectorData call for a sector that two
\* or more slots hold takes its payload from the lowest such slot when
\* m_phantomFlip is false before the call and from a higher one when it is
\* true.  The flip is one toggle for the whole image and is false after the
\* attach: it is true before a call exactly when an odd number of calls has
\* been made since the attach, so that of two calls in a row made right after
\* the attach for that sector the first takes the lowest slot and the second a
\* higher one, and a third call that follows a call for another sector takes
\* the lowest slot as the first did.
C12_DuplicateByGlobalFlip ==
  [][(/\ last'.op = "getSectorData"
      /\ m_fileRef # NoFile
      /\ m_type = TYPE_ATX
      /\ Cardinality(SlotsOfSector(last'.sector)) >= 2)
     => LET m == SlotsOfSector(last'.sector)
            first == CHOOSE i \in m : \A j \in m : i <= j
            posOf(i) == HeaderAt(m_sectorHeaders, i).fileIndex
        IN  /\ ~m_phantomFlip => last'.dataPos = posOf(first)
            /\ m_phantomFlip => \E i \in m : i > first /\ last'.dataPos = posOf(i)
            /\ m_phantomFlip = (reads % 2 = 1)
            /\ (reads = 1 /\ last.op = "getSectorData" /\ last.sector = last'.sector)
                 => (last.dataPos = posOf(first) /\ last'.dataPos # posOf(first))
            /\ (reads = 2 /\ last.op = "getSectorData" /\ last.sector # last'.sector)
                 => last'.dataPos = posOf(first)
            /\ m_sectorBuffer'.data =
                 [i \in 1 .. SECTOR_SIZE_SD |->
                    ContentByte(disk, m_fileRef, last'.dataPos + i - 1)]]_vars

\* the second read after the attach of the ATX image asked for sector 3, which
\* slots 1 and 2 hold, and its payload is that of slot 2
C12_Witness ==
  /\ last.op = "getSectorData"
  /\ last.file = F_ATX
  /\ m_type = TYPE_ATX
  /\ last.sector = 3
  /\ reads = 2
  /\ SlotsOfSector(3) = {1, 2}
  /\ last.dataPos = HeaderAt(m_sectorHeaders, 2).fileIndex
  /\ last.dataPos # HeaderAt(m_sectorHeaders, 1).fileIndex
  /\ m_sectorBuffer.data[1] = Fill(3)

(***************************************************************************)
(* Properties of PRO reads                                                 *)
(***************************************************************************)
\* C13: with a PRO image attached, a getSectorData call for a sector whose
\* header has the CRC-error, data-lost or record-not-found flag at 0 returns
\* with error set and the payload of the sector's own slot, also when phantoms
\* are in use, the sector has a phantom and m_phantomFlip was true before the
\* call; when the three flags are 1 the call returns with error clear.
C13_ErrorFlagsKeepPrimary ==
  LET f == last.file
      hdr == PRO_FILE_HEADER_SIZE + (last.sector - 1) * ProSlotSize
      own == hdr + SIZEOF_PROSectorHeader
      hw == ContentByte(disk, f, hdr + PSH_hardwareStatus)
      flag(n) == (hw \div (2 ^ n)) % 2
      flags == {flag(HW_crcError), flag(HW_dataLostOrTrack0), flag(HW_recordNotFound)}
  IN  (last.op = "getSectorData" /\ f # NoFile /\ m_type = TYPE_PRO) =>
        /\ 0 \in flags =>
             /\ m_sectorBuffer.error
             /\ last.dataPos = own
             /\ m_sectorBuffer.data =
                  [i \in 1 .. SECTOR_SIZE_SD |-> ContentByte(disk, f, own + i - 1)]
        /\ flags = {1} => ~m_sectorBuffer.error

\* sector 4 of the PRO image, whose data-lost flag alone reads 0 and which has
\* a phantom, has been read with phantoms in use and the flip set, and the
\* payload is that of slot 4
C13_Witness ==
  /\ last.op = "getSectorData"
  /\ last.file = F_PRO
  /\ m_type = TYPE_PRO
  /\ last.sector = 4
  /\ m_usePhantoms
  /\ last.flipBefore
  /\ ContentByte(disk, F_PRO, PRO_FILE_HEADER_SIZE + 3 * ProSlotSize + PSH_totalPhantoms) > 0
  /\ m_sectorBuffer.error
  /\ m_sectorBuffer.statusFrame.hardwareStatus = 255 - 4
  /\ m_sectorBuffer.data[1] = Fill(4)

C17_FoundSectorFrame ==
  (/\ last.op = "getSectorData"
   /\ last.file # NoFile
   /\ m_type = TYPE_ATX
   /\ SlotsOfSector(last.sector) # {})
  => LET m == SlotsOfSector(last.sector)
         served == IF last.flipBefore THEN CHOOSE i \in m : \A j \in m : j <= i
                   ELSE CHOOSE i \in m : \A j \in m : i <= j
         recorded == HeaderAt(m_sectorHeaders, served).sstatus
         hw == m_sectorBuffer.statusFrame.hardwareStatus
     IN  /\ m_sectorBuffer.validStatusFrame
         /\ hw \in 0 .. 255
         /\ \A n \in 0 .. 7 : (hw \div (2 ^ n)) % 2 = 1 - ((recorded \div (2 ^ n)) % 2)
         /\ m_sectorBuffer.statusFrame.commandStatus = 16
         /\ m_sectorBuffer.statusFrame.timeout_lsb = 224
         /\ m_sectorBuffer.error <=> (recorded # 0)
         /\ last.dataPos = HeaderAt(m_sectorHeaders, served).fileIndex

\* sector 4 of the ATX image, whose slot has the status byte 8, has been read:
\* error is set, the hardware status is 0xF7 and the payload is that of the sector
C17_Witness ==
  /\ last.op = "getSectorData"
  /\ last.file = F_ATX
  /\ m_type = TYPE_ATX
  /\ last.sector = 4
  /\ HeaderAt(m_sectorHeaders, 3).sstatus = 8
  /\ last.dataPos = HeaderAt(m_sectorHeaders, 3).fileIndex
  /\ m_sectorBuffer.error
  /\ m_sectorBuffer.statusFrame.hardwareStatus = 247
  /\ m_sectorBuffer.data[1] = Fill(4)

\* C19: with a writable ATR or XFD image attached, a writeSectorData call for
\* sector n with getSectorSize() bytes puts those bytes where sector n lies in
\* the file and changes no byte of any other sector; a getSectorData call that
\* follows it at once returns with error clear and the bytes of the sector it
\* asks for, which for sector n are the bytes written.
C19_WriteThenRead ==
  [][LET f == m_fileRef
         size == getSectorSize
         at(sec) == m_headerSize + (sec - 1) * size
         bytesOf(d, sec) == [i \in 1 .. size |-> ContentByte(d, f, at(sec) + i - 1)]
         writable == f # NoFile /\ m_type \in {TYPE_ATR, TYPE_XFD} /\ ~m_readOnly
     IN  /\ (writable /\ last'.op = "writeSectorData" /\ last'.ret = size) =>
               /\ \E b \in WriteFills : bytesOf(disk', last'.sector) = [i \in 1 .. size |-> b]
               /\ \A sec \in ReadSectors \ {last'.sector} :
                    bytesOf(disk', sec) = bytesOf(disk, sec)
         /\ (writable /\ last.op = "writeSectorData" /\ last.ret = size
                /\ last'.op = "getSectorData") =>
               /\ ~m_sectorBuffer'.error
               /\ m_sectorBuffer'.data = bytesOf(disk, last'.sector)
               /\ last'.sector = last.sector =>
                    \E b \in WriteFills : m_sectorBuffer'.data = [i \in 1 .. size |-> b]]_vars

\* sector 2 of the XFD image has been written and then read: the read returns
\* the bytes written
C19_Witness ==
  /\ last.op = "getSectorData"
  /\ last.file = F_XFD
  /\ m_type = TYPE_XFD
  /\ last.sector = 2
  /\ F_XFD \in DOMAIN disk
  /\ DOMAIN disk[F_XFD].over = SECTOR_SIZE_SD .. (2 * SECTOR_SIZE_SD - 1)
  /\ ~m_sectorBuffer.error
  /\ m_sectorBuffer.data = [i \in 1 .. SECTOR_SIZE_SD |-> 170]

(***************************************************************************)
(* Properties of an attach after another                                   *)
(***************************************************************************)
\* the fields of one freshly constructed object: the constructor leaves them
\* unset, and this is the object whose memory holds zeros
FreshFields ==
  [m_type |-> TYPE_GARBAGE, m_headerSize |-> 0, m_sectorSize |-> SECTOR_SIZE_SD,
   m_readOnly |-> FALSE, m_sectorReadDelay |-> 0, m_usePhantoms |-> FALSE,
   m_phantomFlip |-> FALSE, m_sectorHeaders |-> ClearedHeaders, oob |-> FALSE]

\* the format parameters later calls depend on: m_headerSize in the offsets of
\* lines 62, 79, 120 and 142 and in the queries of lines 372 and 376,
\* m_usePhantoms in the PRO branch alone (line 78), m_phantomFlip in the PRO
\* and ATX branches (lines 78 and 89)
FormatParameters(o) ==
  [headerSize |-> o.m_headerSize, sectorSize |-> o.m_sectorSize, readOnly |-> o.m_readOnly,
   sectorReadDelay |-> o.m_sectorReadDelay,
   usePhantoms |-> o.m_type = TYPE_PRO /\ o.m_usePhantoms,
   phantomFlip |-> o.m_type \in {TYPE_PRO, TYPE_ATX} /\ o.m_phantomFlip]

\* C18 as the specification words it: after a setFile that succeeds, the
\* header size, sector size, read-only flag, read delay and, for the kinds
\* whose reads look at them, phantom use and phantom flip are those the file
\* alone gives: the object holds the same values as a freshly constructed
\* object that attaches the same file, whatever the object held or had
\* attached before.
C18_AttachForgetsHistory ==
  (last.op = "setFile" /\ last.ret = 1) =>
    FormatParameters(Fields) =
      FormatParameters(LoadFile(FreshFields, disk, last.file,
                                FileSizeOf(disk, last.file), intBits).o)

\* C20 as the specification words it: after a format call that returns true on
\* the attached handle of a writable ATR image, getSectorSize(),
\* isEnhancedDensity() and isDoubleDensity() answer as they do on a freshly
\* constructed object that attaches the file as format has left it.
C20_FormatUpdatesGeometry ==
  (/\ last.op = "format"
   /\ last.ret = 1
   /\ m_fileRef # NoFile
   /\ last.file = m_fileRef
   /\ m_type = TYPE_ATR)
  => LET size == FileSizeOf(disk, m_fileRef)
         r == LoadFile(FreshFields, disk, m_fileRef, size, intBits)
         hs == r.o.m_headerSize
     IN  /\ r.ok
         /\ getSectorSize = r.o.m_sectorSize
         /\ isEnhancedDensity = (size = FORMAT_SS_ED_35 + hs \/ size = FORMAT_SS_ED_40 + hs)
         /\ isDoubleDensity = (size = FORMAT_SS_DD_35 + hs \/ size = FORMAT_SS_DD_40 + hs)

(***************************************************************************)
(* Properties of the ATX index builder, checked under SpecIndex            *)
(***************************************************************************)
\* C14 as the specification words it: the loader takes the directory offset at
\* byte 28, the length of each track record, each sector-list offset and each
\* sector start offset as the little-endian 32-bit number b0 + b1 * 2^8 +
\* b2 * 2^16 + b3 * 2^24 of the four bytes, so that after the attach of a
\* file whose first record is for track 0 the slot of every sector entry
\* holds the file position those numbers give: the start of its track record
\* plus the entry's start offset.
C14_LittleEndianFields ==
  (last.op = "setFile" /\ last.file \in AtxVarFiles /\ last.ret = 1) =>
    LET p == AtxLayout(last.file)
    IN  (p.track = 0 /\ p.count <= SECTORS_PER_TRACK) =>
          /\ \A i \in 0 .. (p.count - 1) :
               HeaderAt(m_sectorHeaders, i) =
                 [sectorNumber |-> i, sstatus |-> 0,
                  fileIndex |-> p.dir + p.data + i * SECTOR_SIZE_SD]
          /\ \A k \in 1 .. (NUM_TRACKS - 1) :
               HeaderAt(m_sectorHeaders, k * SECTORS_PER_TRACK) =
                 [sectorNumber |-> k * SECTORS_PER_TRACK, sstatus |-> 0,
                  fileIndex |-> p.dir + p.len + (k - 1) * AtxRestSize + AtxRestData]

\* C15 as the specification words it: whatever track number (0 .. 255) and
\* sector count (0 .. 65535) the track records of an ATX file declare, every
\* store the loader makes into m_sectorHeaders goes to one of the slots
\* 0 .. 719.
C15_StoresStayInTable ==
  (last.op = "setFile" /\ last.file \in AtxVarFiles /\ last.ret = 1) => ~last.oob

====
